---- MODULE Spec2Model ----
(***************************************************************************)
(* RadixSpline: a learned index over a sorted sequence of u64 keys.        *)
(*                                                                         *)
(* Three index types of the repository are modelled, one per value of      *)
(* `variant`:                                                              *)
(*   "radix"        src/src/radix.rs         RadixSpline (table filled     *)
(*                                           inline, lookup by scan)       *)
(*   "radix_spline" src/src/radix_spline.rs  RadixSpline exported by       *)
(*                                           lib.rs (build_table)          *)
(*   "corridor"     src/src/spline_corridor.rs  GreedySplineCorridor       *)
(*                                                                         *)
(* The two-pass Builder of src/src/builder.rs is modelled next to the     *)
(* "radix_spline" index, on the same input (b_pc, b_points, b_table).      *)
(*                                                                         *)
(* A behaviour picks an input (data, num_radix_bits, max_error), runs the  *)
(* constructor (one action for the prologue, one per iteration of the scan *)
(* loop, one for the epilogue) and then answers any number of searches.    *)
(* A Rust panic (failed assert!, index out of bounds, slice out of range,  *)
(* arithmetic overflow in a debug build, division by zero) is an outcome:  *)
(* pc = "panic_len", "panic_shift" or "panic_dx" during construction,     *)
(* result.kind = "Panic" in a search.                                      *)
(*                                                                         *)
(* u64 and usize are KeyBits wide, a width scaled down with the keys of    *)
(* the model, so that key differences fill the word as they can in 64     *)
(* bits. Where unsigned arithmetic can leave the word (the shift of new,   *)
(* the subtraction, product and sums of search) a build with overflow      *)
(* checks panics and one without wraps; both outcomes are modelled.        *)
(* max_error is small against the word: i + max_error always fits, and     *)
(* the allocation of the table succeeds.                                   *)
(*                                                                         *)
(* Positions, indices and prefixes are 0-based as in the source; TLA+      *)
(* sequences are 1-based, so At(s, j) reads s[j + 1].                      *)
(***************************************************************************)
EXTENDS Integers, Sequences, FiniteSets, TLC

\* Bounds of the model.
MaxLen == 5
MaxKey == 6
MaxError == 2
MaxRadixBits == 3

\* Program constants.
LinearSearchLimit == 32

VARIABLES
    variant,            \* which index type is under construction / queried
    data,               \* the sorted input keys
    num_radix_bits,     \* constructor argument
    max_error,          \* constructor argument
    pc,                 \* "start", "scan", "built", "panic_len",
                        \* "panic_shift", "panic_dx"
    min_key,            \* data[0]
    shift_radix_bits,   \* computed by get_num_shift_bits
    points,             \* spline points emitted so far
    table,              \* radix table
    c_base,             \* base of the current corridor
    upper,              \* upper corridor bound
    lower,              \* lower corridor bound
    last_prefix,        \* last prefix whose table slot is filled
    last_index,         \* radix_spline.rs: first data index not yet tabled
    i,                  \* loop index of the scan
    result,             \* outcome of the most recent search
    b_pc,               \* builder.rs: "start", "built" or a panic of new
    b_points,           \* builder.rs: Builder.points
    b_table             \* builder.rs: Builder.table

vars == <<variant, data, num_radix_bits, max_error, pc, min_key,
          shift_radix_bits, points, table, c_base, upper, lower,
          last_prefix, last_index, i, result, b_pc, b_points, b_table>>

inputVars == <<variant, data, num_radix_bits, max_error>>

builderVars == <<b_pc, b_points, b_table>>

----------------------------------------------------------------------------
\* Helpers for Rust's primitive operations.

At(s, j) == s[j + 1]

InBounds(s, j) == j >= 0 /\ j < Len(s)

Last(s) == s[Len(s)]

saturating_sub(a, b) == IF a >= b THEN a - b ELSE 0

RECURSIVE BitLen(_)
BitLen(d) == IF d = 0 THEN 0 ELSE 1 + BitLen(d \div 2)

\* The width of u64 and of usize (64 in the source, on a 64-bit target),
\* scaled to the model: the narrowest word that holds every key and every
\* position and corridor bound (up to n - 1 + max_error) of the model, so
\* that the model's keys fill the word as 64-bit keys fill a u64.
KeyBits ==
    BitLen(IF MaxKey > MaxLen + MaxError THEN MaxKey ELSE MaxLen + MaxError)

\* usize::MAX
WordMax == 2 ^ KeyBits - 1

\* The value a release build keeps of an overflowing unsigned result.
Wrap(x) == x % (2 ^ KeyBits)

\* u64::leading_zeros
leading_zeros(d) == KeyBits - BitLen(d)

\* x >> s on unsigned integers
Shr(x, s) == x \div (2 ^ s)

\* slice[a..=b].fill(v), indices 0-based; a > b fills nothing
Fill(t, a, b, v) == [p \in DOMAIN t |-> IF a <= p - 1 /\ p - 1 <= b THEN v ELSE t[p]]

IsSorted(s) == \A a \in 1..Len(s) - 1 : s[a] <= s[a + 1]

\* The outcomes of slice::binary_search for `key` over data[from..=to]:
\* Ok(p) for any p with slice[p] = key (the standard library picks one of
\* the matches, unspecified which), reported as the absolute index from + p;
\* -1 stands for Err(_).
data_binary_search(from, to, key) ==
    LET hits == {j \in from..to : At(data, j) = key}
    IN  IF hits = {} THEN {-1} ELSE hits

\* The outcomes of binary_search over the points pts[a..b) by key:
\* [ok |-> TRUE, idx] for any match, else [ok |-> FALSE, idx] with idx the
\* insertion point; idx is relative to a.
points_binary_search(pts, a, b, key) ==
    LET hits == {j \in a..b - 1 : At(pts, j).key = key}
        less == Cardinality({j \in a..b - 1 : At(pts, j).key < key})
    IN  IF hits = {} THEN {[ok |-> FALSE, idx |-> less]}
        ELSE {[ok |-> TRUE, idx |-> j - a] : j \in hits}

----------------------------------------------------------------------------
\* common.rs: Point and Line.

Point(k, p) == [key |-> k, position |-> p]

NoPoint == Point(0, 0)

Line(s, e) == [start |-> s, end |-> e]

\* is_vertical that reports no line as vertical.
is_vertical_never(l) == FALSE

is_vertical(l) == l.start.key = l.end.key

\* assert!(dx > 0) and assert!(other_dx > 0) of get_direction. With
\* end.key < start.key the u64 subtraction overflows (a panic in a debug
\* build); the scan never builds such a line from sorted data.
direction_panics(l, o) ==
    \/ l.end.key - l.start.key <= 0
    \/ o.end.key - o.start.key <= 0

\* get_direction compares dy/dx with other_dy/other_dx as f64. For the
\* magnitudes of this model (and any below 2^26) two distinct quotients
\* differ by at least 1/(dx * other_dx), far more than a rounding error, and
\* equal quotients round equally, so the f64 comparison is the comparison
\* of the exact rationals, done here by cross-multiplication (dx > 0).
get_direction(l, o) ==
    LET dy == l.end.position - l.start.position
        dx == l.end.key - l.start.key
        other_dy == o.end.position - o.start.position
        other_dx == o.end.key - o.start.key
    IN  IF dy * other_dx = other_dy * dx THEN "Coincide"
        ELSE IF dy * other_dx > other_dy * dx THEN "Left"
        ELSE "Right"

is_left(l, o) == get_direction(l, o) = "Left"

is_right(l, o) == get_direction(l, o) = "Right"

----------------------------------------------------------------------------
\* Inputs and the initial state.

SortedInputs ==
    {s \in UNION {[1..n -> 0..MaxKey] : n \in 0..MaxLen} : IsSorted(s)}

\* The literal inputs of the tests of spline_corridor.rs.
ExampleInputs == {<<3, 4, 8, 10, 19, 20>>, <<3, 4, 8, 8, 10, 10, 19, 20>>}

Variants == {"radix", "radix_spline", "corridor"}

NoResult == [kind |-> "NoResult", key |-> 0, idx |-> -1, pred |-> -1,
             from |-> -1, to |-> -1, product |-> -1]

Panic(key) == [kind |-> "Panic", key |-> key, idx |-> -1, pred |-> -1,
               from |-> -1, to |-> -1, product |-> -1]

Init ==
    /\ variant \in Variants
    /\ data \in SortedInputs
    /\ max_error \in 0..MaxError
    /\ num_radix_bits \in (IF variant = "corridor" THEN {0} ELSE 0..MaxRadixBits)
    /\ pc = "start"
    /\ min_key = 0
    /\ shift_radix_bits = 0
    /\ points = <<>>
    /\ table = <<>>
    /\ c_base = NoPoint
    /\ upper = NoPoint
    /\ lower = NoPoint
    /\ last_prefix = 0
    /\ last_index = 0
    /\ i = 0
    /\ result = NoResult
    /\ b_pc = "start"
    /\ b_points = <<>>
    /\ b_table = <<>>

----------------------------------------------------------------------------
\* The corridor bounds of the input point (key, q); the same expressions in
\* radix.rs, radix_spline.rs and spline_corridor.rs.

upper_bound_at(key, q) == Point(key, q + max_error)

\* lower_bound_at with the upper bound's position.
lower_bound_at_raised(key, q) == Point(key, q + max_error)

lower_bound_at(key, q) == Point(key, saturating_sub(q, max_error))

----------------------------------------------------------------------------
\* radix.rs and radix_spline.rs: get_num_shift_bits (the same text in both).

\* get_num_shift_bits keeping one bit more than num_radix_bits.
get_num_shift_bits_one_more(diff, nrb) ==
    LET zeros == leading_zeros(diff)
    IN  IF KeyBits - zeros < nrb + 1 THEN 0 ELSE KeyBits - (nrb + 1) - zeros

\* A shift by KeyBits (num_radix_bits = 0 and a diff that fills the word)
\* makes `(max_key - min_key) >> shift_radix_bits` in new fail: a debug
\* build panics on the shift; a release build shifts by 0 and then asks for
\* a table of diff + 2 slots, more than an allocation can hold.
get_num_shift_bits(diff, nrb) ==
    LET zeros == leading_zeros(diff)
    IN  IF KeyBits - zeros < nrb THEN 0 ELSE KeyBits - nrb - zeros

----------------------------------------------------------------------------
\* radix.rs: RadixSpline::new and RadixSpline::build.

buildVars == <<min_key, shift_radix_bits, points, table, c_base, upper,
               lower, last_prefix, last_index, i>>

\* The condition under which the scan emits data[i - 1] as a spline point.
radix_corridor_violated(bc, bu, bl) == is_left(bc, bu) \/ is_right(bc, bl)

\* radix_update_table filling points.len() instead of points.len() - 1.
radix_update_table_one_past(t, lastp, curp, npoints) ==
    IF curp > lastp THEN Fill(t, lastp + 1, curp, npoints) ELSE t

\* "update table": slots last_prefix + 1 ..= current_prefix get the index of
\* the point just pushed (npoints is points.len() after the push).
radix_update_table(t, lastp, curp, npoints) ==
    IF curp > lastp THEN Fill(t, lastp + 1, curp, npoints - 1) ELSE t

\* radix_last_point with the position one past the end.
radix_last_point_len(d) == Point(At(d, Len(d) - 1), Len(d))

\* The final spline point pushed after the scan.
radix_last_point(d) == Point(At(d, Len(d) - 1), Len(d) - 1)

\* new, up to the first iteration of build's loop.
radix_new ==
    /\ variant = "radix"
    /\ pc = "start"
    /\ IF Len(data) < 3
       THEN /\ pc' = "panic_len"
            /\ UNCHANGED buildVars
       ELSE LET min == At(data, 0)
                max == At(data, Len(data) - 1)
                shift == get_num_shift_bits(max - min, num_radix_bits)
                max_prefix == Shr(max - min, shift)
            IN  IF shift >= KeyBits
                THEN /\ pc' = "panic_shift"
                     /\ UNCHANGED buildVars
                ELSE
                /\ min_key' = min
                /\ shift_radix_bits' = shift
                /\ table' = [p \in 1..(max_prefix + 2) |-> 0]
                /\ points' = <<Point(At(data, 0), 0)>>
                /\ c_base' = Point(At(data, 0), 0)
                /\ upper' = upper_bound_at(At(data, 1), 1)
                /\ lower' = lower_bound_at(At(data, 1), 1)
                /\ last_prefix' = 0
                /\ i' = 2
                /\ pc' = "scan"
                /\ UNCHANGED last_index
    /\ UNCHANGED <<inputVars, builderVars, result>>

\* One iteration of `for (i, &key) in data[2..].iter().enumerate()`.
radix_build_loop ==
    /\ variant = "radix"
    /\ pc = "scan"
    /\ i < Len(data)
    /\ LET key == At(data, i)
           point_c == Point(key, i)
           bc == Line(c_base, point_c)
           bu == Line(c_base, upper)
           bl == Line(c_base, lower)
           new_upper == upper_bound_at(key, i)
           new_lower == lower_bound_at(key, i)
           new_bu == Line(c_base, new_upper)
           new_bl == Line(c_base, new_lower)
       IN  IF is_vertical(bc) \/ is_vertical(bu) \/ is_vertical(bl)
           THEN /\ upper' = new_upper
                /\ lower' = new_lower
                /\ i' = i + 1
                /\ UNCHANGED <<pc, points, table, c_base, last_prefix>>
           ELSE IF direction_panics(bc, bu)
                   \/ (~is_left(bc, bu) /\ direction_panics(bc, bl))
           THEN /\ pc' = "panic_dx"
                /\ UNCHANGED <<points, table, c_base, upper, lower, last_prefix, i>>
           ELSE IF radix_corridor_violated(bc, bu, bl)
           THEN LET base == Point(At(data, i - 1), i - 1)
                    pts == Append(points, base)
                    current_prefix == Shr(At(data, i - 1) - min_key, shift_radix_bits)
                IN  /\ c_base' = base
                    /\ points' = pts
                    /\ table' = radix_update_table(table, last_prefix, current_prefix, Len(pts))
                    /\ last_prefix' = (IF current_prefix > last_prefix
                                       THEN current_prefix ELSE last_prefix)
                    /\ upper' = new_upper
                    /\ lower' = new_lower
                    /\ i' = i + 1
                    /\ UNCHANGED pc
           ELSE IF direction_panics(bu, new_bu) \/ direction_panics(bl, new_bl)
           THEN /\ pc' = "panic_dx"
                /\ UNCHANGED <<points, table, c_base, upper, lower, last_prefix, i>>
           ELSE /\ upper' = (IF is_left(bu, new_bu) THEN new_upper ELSE upper)
                /\ lower' = (IF is_right(bl, new_bl) THEN new_lower ELSE lower)
                /\ i' = i + 1
                /\ UNCHANGED <<pc, points, table, c_base, last_prefix>>
    /\ UNCHANGED <<inputVars, builderVars, min_key, shift_radix_bits, last_index, result>>

\* After the loop: the final point, the last table update and the sentinel.
radix_build_end ==
    /\ variant = "radix"
    /\ pc = "scan"
    /\ i = Len(data)
    /\ LET n == Len(data)
           pts == Append(points, radix_last_point(data))
           current_prefix == Shr(At(data, n - 1) - min_key, shift_radix_bits)
           t1 == radix_update_table(table, last_prefix, current_prefix, Len(pts))
           lp == IF current_prefix > last_prefix THEN current_prefix ELSE last_prefix
       IN  /\ points' = pts
           /\ table' = Fill(t1, lp + 1, Len(t1) - 1, Len(pts))
           /\ last_prefix' = lp
    /\ pc' = "built"
    /\ UNCHANGED <<inputVars, builderVars, min_key, shift_radix_bits, c_base, upper, lower,
                   last_index, i, result>>

----------------------------------------------------------------------------
\* radix.rs: RadixSpline::get_spline_segment and RadixSpline::search.

\* radix_linear_search that also steps over a point with the key itself.
RECURSIVE radix_linear_search_past_equal(_, _)
radix_linear_search_past_equal(current, key) ==
    IF ~InBounds(points, current) THEN -1
    ELSE IF At(points, current).key <= key
    THEN radix_linear_search_past_equal(current + 1, key)
    ELSE current

\* `while self.points[_current].key() < key { _current += 1 }`; -1 when the
\* scan indexes past the end of points (a panic).
RECURSIVE radix_linear_search(_, _)
radix_linear_search(current, key) ==
    IF ~InBounds(points, current) THEN -1
    ELSE IF At(points, current).key < key THEN radix_linear_search(current + 1, key)
    ELSE current

\* The possible values of get_spline_segment(key); -1 stands for a panic:
\* `key - self.min_key` overflows for key < min_key (a debug build panics, a
\* release build wraps to a prefix beyond the table, which panics too), a
\* table slot out of bounds, `_end - _start` overflowing, or a slice of
\* points out of range.
get_spline_segment(key) ==
    IF key < min_key THEN {-1}
    ELSE LET c_prefix == Shr(key - min_key, shift_radix_bits)
         IN  IF ~InBounds(table, c_prefix + 1) THEN {-1}
             ELSE LET start == At(table, c_prefix)
                      end == At(table, c_prefix + 1)
                  IN  IF end < start THEN {-1}
                      ELSE IF end - start < LinearSearchLimit
                      THEN {radix_linear_search(start, key)}
                      ELSE IF end > Len(points) THEN {-1}
                      ELSE {start + r.idx : r \in points_binary_search(points, start, end, key)}

\* The product of search's interpolation, as a mathematical integer.
radix_product(start, end, key) ==
    (key - start.key) * (end.position - start.position)

\* The possible values of `predicted`, the integer interpolation of `key`
\* between two spline points, computed in usize: a product beyond
\* usize::MAX panics in a debug build (-1) and wraps in a release build.
radix_predicted(start, end, key) ==
    LET product == radix_product(start, end, key)
        dx == end.key - start.key
    IN  IF product > WordMax
        THEN {-1, Wrap(start.position + Wrap(product) \div dx)}
        ELSE {start.position + product \div dx}

\* from, to and the binary search of data[from..=to]. `predicted +
\* max_error` beyond usize::MAX panics in a debug build and wraps in a
\* release build.
radix_refine(predicted, product, key) ==
    LET from == saturating_sub(predicted, max_error)
        sum == predicted + max_error
        to == IF Wrap(sum) > Len(data) - 1 THEN Len(data) - 1 ELSE Wrap(sum)
    IN  (IF sum > WordMax THEN {[Panic(key) EXCEPT !.product = product]} ELSE {})
        \cup (IF from > to + 1
              THEN {[Panic(key) EXCEPT !.pred = predicted, !.from = from,
                                       !.to = to, !.product = product]}
              ELSE {[kind |-> IF p = -1 THEN "None" ELSE "Some",
                     key |-> key, idx |-> p, pred |-> predicted,
                     from |-> from, to |-> to, product |-> product]
                    : p \in data_binary_search(from, to, key)})

\* The outcomes of search(key) once the segment index is known.
radix_search_at(point_location, key) ==
    IF ~InBounds(points, point_location) THEN {Panic(key)}
    ELSE IF At(points, point_location).key = key
    THEN {[kind |-> "Some", key |-> key,
           idx |-> At(points, point_location).position,
           pred |-> At(points, point_location).position,
           from |-> -1, to |-> -1, product |-> -1]}
    ELSE IF point_location = 0
    THEN {[kind |-> "None", key |-> key, idx |-> -1, pred |-> -1,
           from |-> -1, to |-> -1, product |-> -1]}
    ELSE LET start == At(points, point_location - 1)
             end == At(points, point_location)
             product == radix_product(start, end, key)
         IN  IF \/ key < start.key
                \/ end.position < start.position
                \/ end.key <= start.key
             THEN {Panic(key)}
             ELSE UNION {IF predicted = -1
                         THEN {[Panic(key) EXCEPT !.product = product]}
                         ELSE radix_refine(predicted, product, key)
                         : predicted \in radix_predicted(start, end, key)}

radix_search_outcomes(key) ==
    UNION {IF loc = -1 THEN {Panic(key)} ELSE radix_search_at(loc, key)
           : loc \in get_spline_segment(key)}

\* The keys searched: every key up to one past the largest key of the
\* input (or of the bound on keys).
QueryKeys ==
    0..(IF data # <<>> /\ Last(data) > MaxKey THEN Last(data) ELSE MaxKey) + 1

radix_search ==
    /\ variant = "radix"
    /\ pc = "built"
    /\ \E key \in QueryKeys : result' \in radix_search_outcomes(key)
    /\ UNCHANGED <<inputVars, builderVars, pc, buildVars>>

----------------------------------------------------------------------------
\* radix_spline.rs: RadixSpline::new, build_table and build.

\* build_table over data[j..hi): every value moves last_prefix to its own
\* prefix and fills the slots in between with the index of the last point
\* (the value is the key of the point just pushed) or of the one before it.
\* Yields the table and last_prefix after the walk.
RECURSIVE rs_build_table(_, _, _, _, _, _)
rs_build_table(t, lastp, j, hi, point_key, points_size) ==
    IF j >= hi THEN [table |-> t, last_prefix |-> lastp]
    ELSE LET value == At(data, j)
             curr_prefix == Shr(value - min_key, shift_radix_bits)
             position == IF value = point_key THEN points_size - 1 ELSE points_size - 2
         IN  rs_build_table(Fill(t, lastp + 1, curr_prefix, position), curr_prefix,
                            j + 1, hi, point_key, points_size)

rs_corridor_violated(bc, bu, bl) == is_left(bc, bu) \/ is_right(bc, bl)

rs_new ==
    /\ variant = "radix_spline"
    /\ pc = "start"
    /\ IF Len(data) < 3
       THEN /\ pc' = "panic_len"
            /\ UNCHANGED buildVars
       ELSE LET min == At(data, 0)
                max == At(data, Len(data) - 1)
                shift == get_num_shift_bits(max - min, num_radix_bits)
                max_prefix == Shr(max - min, shift)
            IN  IF shift >= KeyBits
                THEN /\ pc' = "panic_shift"
                     /\ UNCHANGED buildVars
                ELSE
                /\ min_key' = min
                /\ shift_radix_bits' = shift
                /\ table' = [p \in 1..(max_prefix + 2) |-> 0]
                /\ points' = <<Point(At(data, 0), 0)>>
                /\ c_base' = Point(At(data, 0), 0)
                /\ upper' = upper_bound_at(At(data, 1), 1)
                /\ lower' = lower_bound_at(At(data, 1), 1)
                /\ last_index' = 1
                /\ last_prefix' = 0
                /\ i' = 2
                /\ pc' = "scan"
    /\ UNCHANGED <<inputVars, builderVars, result>>

rs_build_loop ==
    /\ variant = "radix_spline"
    /\ pc = "scan"
    /\ i < Len(data)
    /\ LET key == At(data, i)
           point_c == Point(key, i)
           bc == Line(c_base, point_c)
           bu == Line(c_base, upper)
           bl == Line(c_base, lower)
           new_upper == upper_bound_at(key, i)
           new_lower == lower_bound_at(key, i)
           new_bu == Line(c_base, new_upper)
           new_bl == Line(c_base, new_lower)
       IN  IF is_vertical(bc) \/ is_vertical(bu) \/ is_vertical(bl)
           THEN /\ upper' = new_upper
                /\ lower' = new_lower
                /\ i' = i + 1
                /\ UNCHANGED <<pc, points, table, c_base, last_prefix, last_index>>
           ELSE IF direction_panics(bc, bu)
                   \/ (~is_left(bc, bu) /\ direction_panics(bc, bl))
           THEN /\ pc' = "panic_dx"
                /\ UNCHANGED <<points, table, c_base, upper, lower, last_prefix,
                               last_index, i>>
           ELSE IF rs_corridor_violated(bc, bu, bl)
           THEN LET base == Point(At(data, i - 1), i - 1)
                    pts == Append(points, base)
                    bt == rs_build_table(table, last_prefix, last_index, i,
                                         base.key, Len(pts))
                IN  /\ c_base' = base
                    /\ points' = pts
                    /\ upper' = new_upper
                    /\ lower' = new_lower
                    /\ table' = bt.table
                    /\ last_prefix' = bt.last_prefix
                    /\ last_index' = i
                    /\ i' = i + 1
                    /\ UNCHANGED pc
           ELSE IF direction_panics(bu, new_bu) \/ direction_panics(bl, new_bl)
           THEN /\ pc' = "panic_dx"
                /\ UNCHANGED <<points, table, c_base, upper, lower, last_prefix,
                               last_index, i>>
           ELSE /\ upper' = (IF is_left(bu, new_bu) THEN new_upper ELSE upper)
                /\ lower' = (IF is_right(bl, new_bl) THEN new_lower ELSE lower)
                /\ i' = i + 1
                /\ UNCHANGED <<pc, points, table, c_base, last_prefix, last_index>>
    /\ UNCHANGED <<inputVars, builderVars, min_key, shift_radix_bits, result>>

\* After the loop: the final point and the last build_table call, whose
\* returned last_prefix is dropped.
rs_build_end ==
    /\ variant = "radix_spline"
    /\ pc = "scan"
    /\ i = Len(data)
    /\ LET n == Len(data)
           pts == Append(points, Point(At(data, n - 1), n - 1))
           bt == rs_build_table(table, last_prefix, last_index, n,
                                At(data, n - 1), Len(pts))
       IN  /\ points' = pts
           /\ table' = bt.table
    /\ pc' = "built"
    /\ UNCHANGED <<inputVars, builderVars, min_key, shift_radix_bits, c_base, upper, lower,
                   last_prefix, last_index, i, result>>

----------------------------------------------------------------------------
\* radix_spline.rs: RadixSpline::search.

\* The product of search's interpolation as a mathematical integer, the
\* difference `key - start.key` taken as the code's unsigned subtraction
\* leaves it (wrapped for key < start.key).
rs_product(start, end, key) ==
    Wrap(key - start.key) * (end.position - start.position)

\* The possible values of `predicted`; -1 stands for a panic. A debug
\* build panics on `key - start.key` for key < start.key, on a product
\* beyond usize::MAX and on a sum beyond it; a release build wraps each.
\* Division by end.key - start.key = 0 panics in every build.
rs_predicted(start, end, key) ==
    LET dy == end.position - start.position
        dx == end.key - start.key
        product == rs_product(start, end, key)
    IN  IF dy < 0 \/ dx <= 0 THEN {-1}
        ELSE LET sum == start.position + Wrap(product) \div dx
             IN  IF key < start.key \/ product > WordMax \/ sum > WordMax
                 THEN {-1, Wrap(sum)}
                 ELSE {sum}

rs_refine(predicted, product, key) ==
    IF predicted = -1 THEN {[Panic(key) EXCEPT !.product = product]}
    ELSE LET from == saturating_sub(predicted, max_error)
             sum == predicted + max_error
             to == IF Wrap(sum) > Len(data) - 1 THEN Len(data) - 1 ELSE Wrap(sum)
         IN  (IF sum > WordMax THEN {[Panic(key) EXCEPT !.product = product]} ELSE {})
             \cup (IF from > to + 1
                   THEN {[Panic(key) EXCEPT !.pred = predicted, !.from = from,
                                            !.to = to, !.product = product]}
                   ELSE {[kind |-> IF p = -1 THEN "None" ELSE "Some",
                          key |-> key, idx |-> p, pred |-> predicted,
                          from |-> from, to |-> to, product |-> product]
                         : p \in data_binary_search(from, to, key)})

\* The outcomes of search(key). `key - self.min_key` overflows for
\* key < min_key: a panic in a debug build, a prefix beyond the table (an
\* index panic) in a release build.
rs_search_outcomes(key) ==
    IF key < min_key THEN {Panic(key)}
    ELSE LET c_prefix == Shr(key - min_key, shift_radix_bits)
         IN  IF ~InBounds(table, c_prefix) THEN {Panic(key)}
             ELSE IF ~InBounds(points, At(table, c_prefix)) THEN {Panic(key)}
             ELSE LET start == At(points, At(table, c_prefix))
                  IN  IF start.key = key
                      THEN {[kind |-> "Some", key |-> key, idx |-> start.position,
                             pred |-> start.position, from |-> -1, to |-> -1, product |-> -1]}
                      ELSE IF ~InBounds(points, At(table, c_prefix) + 1)
                      THEN {Panic(key)}
                      ELSE LET end == At(points, At(table, c_prefix) + 1)
                           IN  UNION {rs_refine(pr, rs_product(start, end, key), key)
                                      : pr \in rs_predicted(start, end, key)}

rs_search ==
    /\ variant = "radix_spline"
    /\ pc = "built"
    /\ \E key \in QueryKeys : result' \in rs_search_outcomes(key)
    /\ UNCHANGED <<inputVars, builderVars, pc, buildVars>>

----------------------------------------------------------------------------
\* spline_corridor.rs: its own Line, and GreedySplineCorridor.

gsc_is_vertical(l) == l.start.key = l.end.key

gsc_direction_panics(l, o) ==
    \/ l.end.key - l.start.key <= 0
    \/ o.end.key - o.start.key <= 0

\* As get_direction of common.rs, with dy computed in f64.
gsc_get_direction(l, o) ==
    LET dy == l.end.position - l.start.position
        dx == l.end.key - l.start.key
        other_dy == o.end.position - o.start.position
        other_dx == o.end.key - o.start.key
    IN  IF dy * other_dx = other_dy * dx THEN "Coincide"
        ELSE IF dy * other_dx > other_dy * dx THEN "Left"
        ELSE "Right"

gsc_is_left(l, o) == gsc_get_direction(l, o) = "Left"

gsc_is_right(l, o) == gsc_get_direction(l, o) = "Right"

\* gsc_emitted_point emitting the candidate itself, (data[i], i).
gsc_emitted_point_candidate(j) == Point(At(data, j), j)

\* The spline point pushed when the candidate at index j leaves the
\* corridor: the previous input point, (data[j - 1], j - 1).
gsc_emitted_point(j) == Point(At(data, j - 1), j - 1)

\* GreedySplineCorridor::new: spline_points up to the first iteration.
gsc_new ==
    /\ variant = "corridor"
    /\ pc = "start"
    /\ IF ~(Len(data) > 3)
       THEN /\ pc' = "panic_len"
            /\ UNCHANGED buildVars
       ELSE /\ points' = <<Point(At(data, 0), 0)>>
            /\ c_base' = Point(At(data, 0), 0)
            /\ upper' = upper_bound_at(At(data, 1), 1)
            /\ lower' = lower_bound_at(At(data, 1), 1)
            /\ i' = 2
            /\ pc' = "scan"
            /\ UNCHANGED <<min_key, shift_radix_bits, table, last_prefix, last_index>>
    /\ UNCHANGED <<inputVars, builderVars, result>>

\* One iteration of the loop of spline_points (c_base holds `base`).
gsc_spline_points_loop ==
    /\ variant = "corridor"
    /\ pc = "scan"
    /\ i < Len(data)
    /\ LET key == At(data, i)
           point_c == Point(key, i)
           bc == Line(c_base, point_c)
           bu == Line(c_base, upper)
           bl == Line(c_base, lower)
           new_upper == upper_bound_at(key, i)
           new_lower == lower_bound_at(key, i)
           new_bu == Line(c_base, new_upper)
           new_bl == Line(c_base, new_lower)
       IN  IF gsc_is_vertical(bc) \/ gsc_is_vertical(bu) \/ gsc_is_vertical(bl)
           THEN /\ upper' = new_upper
                /\ lower' = new_lower
                /\ i' = i + 1
                /\ UNCHANGED <<pc, points, c_base>>
           ELSE IF gsc_direction_panics(bc, bu)
                   \/ (~gsc_is_left(bc, bu) /\ gsc_direction_panics(bc, bl))
           THEN /\ pc' = "panic_dx"
                /\ UNCHANGED <<points, c_base, upper, lower, i>>
           ELSE IF gsc_is_left(bc, bu) \/ gsc_is_right(bc, bl)
           THEN /\ c_base' = gsc_emitted_point(i)
                /\ points' = Append(points, gsc_emitted_point(i))
                /\ upper' = new_upper
                /\ lower' = new_lower
                /\ i' = i + 1
                /\ UNCHANGED pc
           ELSE IF gsc_direction_panics(bu, new_bu) \/ gsc_direction_panics(bl, new_bl)
           THEN /\ pc' = "panic_dx"
                /\ UNCHANGED <<points, c_base, upper, lower, i>>
           ELSE /\ upper' = (IF gsc_is_left(bu, new_bu) THEN new_upper ELSE upper)
                /\ lower' = (IF gsc_is_right(bl, new_bl) THEN new_lower ELSE lower)
                /\ i' = i + 1
                /\ UNCHANGED <<pc, points, c_base>>
    /\ UNCHANGED <<inputVars, builderVars, min_key, shift_radix_bits, table, last_prefix,
                   last_index, result>>

gsc_spline_points_end ==
    /\ variant = "corridor"
    /\ pc = "scan"
    /\ i = Len(data)
    /\ points' = Append(points, Point(At(data, Len(data) - 1), Len(data) - 1))
    /\ pc' = "built"
    /\ UNCHANGED <<inputVars, builderVars, min_key, shift_radix_bits, table, c_base, upper,
                   lower, last_prefix, last_index, i, result>>

\* from = (predicted - max_error).ceil() as usize: the cast of a negative
\* f64 saturates to 0. predicted = start.position + num / den in f64, which
\* for the magnitudes of this model rounds to the same side of every
\* integer as the exact quotient.
gsc_from(start, num, den) ==
    LET c == start.position - max_error + (num + den - 1) \div den
    IN  IF c < 0 THEN 0 ELSE c

\* to = (predicted + max_error).floor() as usize
gsc_to(start, num, den) == start.position + max_error + num \div den

\* The outcomes of GreedySplineCorridor::search(key).
gsc_search_outcomes(key) ==
    UNION {IF r.ok
           THEN {[kind |-> "Some", key |-> key, idx |-> At(points, r.idx).position,
                  pred |-> At(points, r.idx).position, from |-> -1, to |-> -1, product |-> -1]}
           ELSE IF ~(r.idx > 0)
           THEN {[kind |-> "None", key |-> key, idx |-> -1, pred |-> -1,
                  from |-> -1, to |-> -1, product |-> -1]}
           ELSE IF ~InBounds(points, r.idx) THEN {Panic(key)}
           ELSE LET start == At(points, r.idx - 1)
                    end == At(points, r.idx)
                    num == (key - start.key) * (end.position - start.position)
                    den == end.key - start.key
                    from == gsc_from(start, num, den)
                    to == gsc_to(start, num, den)
                IN  IF to >= Len(data) \/ from > to + 1 THEN {Panic(key)}
                    ELSE {[kind |-> IF p = -1 THEN "None" ELSE "Some",
                           key |-> key, idx |-> p,
                           pred |-> start.position + num \div den,
                           from |-> from, to |-> to, product |-> -1]
                          : p \in data_binary_search(from, to, key)}
           : r \in points_binary_search(points, 0, Len(points), key)}

gsc_search ==
    /\ variant = "corridor"
    /\ pc = "built"
    /\ \E key \in QueryKeys : result' \in gsc_search_outcomes(key)
    /\ UNCHANGED <<inputVars, builderVars, pc, buildVars>>

----------------------------------------------------------------------------
\* builder.rs: Builder::new, the two-pass construction, run on the input of
\* the RadixSpline of radix_spline.rs. The file is not declared in lib.rs
\* and reads the spline through an accessor `points()` that
\* spline_corridor.rs does not define; it is taken to return the field
\* `points` of the GreedySplineCorridor.

\* The loop of GreedySplineCorridor::spline_points from index j on, with the
\* final push; <<>> stands for a failed assert of get_direction.
RECURSIVE builder_spline_points(_, _, _, _, _)
builder_spline_points(pts, base, up, lo, j) ==
    IF j >= Len(data)
    THEN Append(pts, Point(At(data, Len(data) - 1), Len(data) - 1))
    ELSE LET key == At(data, j)
             point_c == Point(key, j)
             bc == Line(base, point_c)
             bu == Line(base, up)
             bl == Line(base, lo)
             new_upper == upper_bound_at(key, j)
             new_lower == lower_bound_at(key, j)
             new_bu == Line(base, new_upper)
             new_bl == Line(base, new_lower)
         IN  IF gsc_is_vertical(bc) \/ gsc_is_vertical(bu) \/ gsc_is_vertical(bl)
             THEN builder_spline_points(pts, base, new_upper, new_lower, j + 1)
             ELSE IF gsc_direction_panics(bc, bu)
                     \/ (~gsc_is_left(bc, bu) /\ gsc_direction_panics(bc, bl))
             THEN <<>>
             ELSE IF gsc_is_left(bc, bu) \/ gsc_is_right(bc, bl)
             THEN builder_spline_points(Append(pts, gsc_emitted_point(j)),
                                        gsc_emitted_point(j), new_upper, new_lower, j + 1)
             ELSE IF gsc_direction_panics(bu, new_bu) \/ gsc_direction_panics(bl, new_bl)
             THEN <<>>
             ELSE builder_spline_points(pts, base,
                                        IF gsc_is_left(bu, new_bu) THEN new_upper ELSE up,
                                        IF gsc_is_right(bl, new_bl) THEN new_lower ELSE lo,
                                        j + 1)

\* The index build_table takes for a key: Ok(idx) => idx (any point with
\* the key), Err(idx) => idx - 1 (the last point with a smaller key).
builder_point_index(pts, key) ==
    {IF r.ok THEN r.idx ELSE r.idx - 1 : r \in points_binary_search(pts, 0, Len(pts), key)}

\* Builder::build_table over data[j..]: the tables it can produce (one per
\* choice of binary_search among points of equal key).
RECURSIVE builder_build_table(_, _, _, _)
builder_build_table(pts, t, lastp, j) ==
    IF j >= Len(data) THEN {t}
    ELSE LET key == At(data, j)
             curr_prefix == Shr(key - At(data, 0),
                                get_num_shift_bits(Last(data) - At(data, 0), num_radix_bits))
         IN  UNION {builder_build_table(pts, Fill(t, lastp + 1, curr_prefix, idx),
                                        curr_prefix, j + 1)
                    : idx \in builder_point_index(pts, key)}

\* Builder::new(data, num_radix_bits, max_error), the whole constructor.
builder_new ==
    /\ variant = "radix_spline"
    /\ b_pc = "start"
    /\ IF data = <<>>
       THEN /\ b_pc' = "panic_index"
            /\ UNCHANGED <<b_points, b_table>>
       ELSE LET min == At(data, 0)
                max == At(data, Len(data) - 1)
                shift == get_num_shift_bits(max - min, num_radix_bits)
                max_prex == Shr(max - min, shift)
                pts == builder_spline_points(<<Point(At(data, 0), 0)>>,
                                             Point(At(data, 0), 0),
                                             upper_bound_at(At(data, 1), 1),
                                             lower_bound_at(At(data, 1), 1), 2)
            IN  IF ~(max > min)
                THEN /\ b_pc' = "panic_range"
                     /\ UNCHANGED <<b_points, b_table>>
                ELSE IF shift >= KeyBits
                THEN /\ b_pc' = "panic_shift"
                     /\ UNCHANGED <<b_points, b_table>>
                ELSE IF ~(Len(data) > 3)
                THEN /\ b_pc' = "panic_len"
                     /\ UNCHANGED <<b_points, b_table>>
                ELSE IF pts = <<>>
                THEN /\ b_pc' = "panic_dx"
                     /\ UNCHANGED <<b_points, b_table>>
                ELSE /\ b_points' = pts
                     /\ b_table' \in builder_build_table(
                                        pts, [p \in 1..(max_prex + 2) |-> 0], 0, 1)
                     /\ b_pc' = "built"
    /\ UNCHANGED <<inputVars, pc, buildVars, result>>

----------------------------------------------------------------------------
Next ==
    \/ radix_new
    \/ radix_build_loop
    \/ radix_build_end
    \/ radix_search
    \/ rs_new
    \/ rs_build_loop
    \/ rs_build_end
    \/ rs_search
    \/ gsc_new
    \/ gsc_spline_points_loop
    \/ gsc_spline_points_end
    \/ gsc_search
    \/ builder_new

Spec == Init /\ [][Next]_vars

\* The same operations started from the literal inputs of the tests.
ExampleInit ==
    /\ variant \in Variants
    /\ data \in ExampleInputs
    /\ max_error \in 0..MaxError
    /\ num_radix_bits \in (IF variant = "corridor" THEN {0} ELSE 0..MaxRadixBits)
    /\ pc = "start"
    /\ min_key = 0
    /\ shift_radix_bits = 0
    /\ points = <<>>
    /\ table = <<>>
    /\ c_base = NoPoint
    /\ upper = NoPoint
    /\ lower = NoPoint
    /\ last_prefix = 0
    /\ last_index = 0
    /\ i = 0
    /\ result = NoResult
    /\ b_pc = "start"
    /\ b_points = <<>>
    /\ b_table = <<>>

SpecExamples == ExampleInit /\ [][Next]_vars

----------------------------------------------------------------------------
\* Properties.

\* The preconditions on the input: n >= 3, keys non-decreasing,
\* data[n - 1] > data[0].
Valid == Len(data) >= 3 /\ IsSorted(data) /\ Last(data) > At(data, 0)

KeysOf(d) == {d[j] : j \in 1..Len(d)}

IndicesOf(key) == {j \in 0..Len(data) - 1 : At(data, j) = key}

Searched == result.kind # "NoResult"

InRange(key) == At(data, 0) <= key /\ key <= Last(data)

Found == /\ result.kind = "Some"
         /\ InBounds(data, result.idx)
         /\ At(data, result.idx) = result.key

Abs(x) == IF x < 0 THEN -x ELSE x

\* C1: radix.rs, round trip: for every valid input, every num_radix_bits
\* and max_error, the search of a key data[i] returns Some(j) with
\* data[j] = data[i].
C1_RoundTrip ==
    (variant = "radix" /\ pc = "built" /\ Valid /\ Searched
        /\ result.key \in KeysOf(data))
    => Found

\* C2: radix.rs, absent keys: for every valid input and every key k with
\* data[0] <= k <= data[n-1] that is not in data, search(k) returns None.
C2_AbsentKeys ==
    (variant = "radix" /\ pc = "built" /\ Valid /\ Searched
        /\ InRange(result.key) /\ result.key \notin KeysOf(data))
    => result.kind = "None"

\* C3: out-of-range queries: for every built index and every key k with
\* k < data[0] or k > data[n-1], search(k) returns None.
C3_OutOfRange ==
    (variant \in {"radix", "radix_spline"} /\ pc = "built" /\ Searched
        /\ ~InRange(result.key))
    => result.kind = "None"

\* C4: error bound: for every valid input (duplicates allowed) and every
\* index i, the position search predicts for data[i] is within max_error
\* of i.
C4_ErrorBound ==
    (variant = "radix" /\ pc = "built" /\ Valid /\ Searched
        /\ result.key \in KeysOf(data))
    => /\ result.pred # -1
       /\ \A j \in IndicesOf(result.key) : Abs(result.pred - j) <= max_error

\* C5: radix_spline.rs (the RadixSpline lib.rs exports), round trip: for
\* every valid input, num_radix_bits and max_error, the search of a key
\* data[i] returns Some(j) with data[j] = data[i].
C5_RoundTripExported ==
    (variant = "radix_spline" /\ pc = "built" /\ Valid /\ Searched
        /\ result.key \in KeysOf(data))
    => Found

\* C6: radix_spline.rs, absent in-range keys: for every valid input and
\* every key k with data[0] <= k <= data[n-1] not in data, search(k)
\* returns None (no subtraction underflows, no index is out of bounds).
C6_AbsentKeysExported ==
    (variant = "radix_spline" /\ pc = "built" /\ Valid /\ Searched
        /\ InRange(result.key) /\ result.key \notin KeysOf(data))
    => result.kind = "None"

\* C7: spline_corridor.rs: for every input GreedySplineCorridor::new
\* accepts and every max_error, search(data[i]) returns Some(j) with
\* data[j] = data[i], and search of a key not in data returns None (the
\* slice data[from..=to] is always within data).
C7_SplineOnlySearch ==
    (variant = "corridor" /\ pc = "built" /\ Searched)
    => IF result.key \in KeysOf(data) THEN Found ELSE result.kind = "None"

\* C8: spline endpoints: for every valid input the built spline-point list
\* S has S[0] = (data[0], 0) and S[|S|-1] = (data[n-1], n-1), key and
\* position.
C8_SplineEndpoints ==
    (pc = "built" /\ Valid)
    => /\ At(points, 0).key = At(data, 0)
       /\ At(points, 0).position = 0
       /\ Last(points).key = Last(data)
       /\ Last(points).position = Len(data) - 1

\* A built list with inner spline points, for an input with repeated keys.
C8_Witness ==
    /\ variant = "radix" /\ pc = "built" /\ Valid
    /\ Len(points) >= 3
    /\ Cardinality(KeysOf(data)) < Len(data)

\* C9: strictly increasing spline keys: for every valid input (duplicates
\* allowed, also at the end of data) S[j].key < S[j+1].key for all j.
C9_StrictlyIncreasingKeys ==
    (pc = "built" /\ Valid)
    => \A j \in 0..Len(points) - 2 : At(points, j).key < At(points, j + 1).key

C12_InputValidation ==
    (variant \in {"radix", "radix_spline"} /\ pc = "built")
    => (Len(data) >= 3 /\ Last(data) > At(data, 0))

\* The radix prefix of a key of the built index.
PrefixOf(key) == Shr(key - min_key, shift_radix_bits)

\* The smallest index j of points with points[j].key >= key (Len(points)
\* when there is none).
SmallestAtLeast(key) ==
    Cardinality({j \in 0..Len(points) - 1 :
                    \A h \in 0..j : At(points, h).key < key})

\* The window of key k is sound: the segment index j lies in
\* table[p]..table[p+1], and the linear scan from table[p] and every
\* outcome of the binary search over points[table[p]..table[p+1]) is j.
WindowSound(k) ==
    LET p == PrefixOf(k)
        j == SmallestAtLeast(k)
    IN  /\ InBounds(table, p + 1)
        /\ At(table, p) <= j
        /\ j <= At(table, p + 1)
        /\ j < Len(points)
        /\ radix_linear_search(At(table, p), k) = j
        /\ At(table, p + 1) <= Len(points)
        /\ \A r \in points_binary_search(points, At(table, p), At(table, p + 1), k) :
               At(table, p) + r.idx = j

\* C13: window soundness of the radix table of radix.rs: for every valid
\* input and every key k in data[0]..data[n-1], the smallest j with
\* S[j].key >= k satisfies T[p] <= j <= T[p+1] and j < |S|, and the linear
\* scan and the binary search over S[T[p]..T[p+1]] both return j.
C13_WindowSoundness ==
    (variant = "radix" /\ pc = "built" /\ Valid)
    => \A k \in At(data, 0)..Last(data) : WindowSound(k)

\* The largest prefix of the index: the prefix of data[n-1].
MaxPrefix == PrefixOf(Last(data))

\* The index in points of the last point whose key prefix is <= p.
LastPointUpTo(p) ==
    Cardinality({j \in 0..Len(points) - 1 : PrefixOf(At(points, j).key) <= p}) - 1

\* The index in points of the first point whose key prefix is >= p.
FirstPointFrom(p) ==
    Cardinality({j \in 0..Len(points) - 1 : PrefixOf(At(points, j).key) < p})

C15_ProductFits ==
    (/\ variant \in {"radix", "radix_spline"} /\ Valid
     /\ Searched /\ InRange(result.key) /\ result.product # -1)
    => result.product <= WordMax

\* C16: the refinement window is a valid slice: whenever search reaches the
\* interpolation step for an in-range key, from and to satisfy
\* 0 <= from <= to <= n - 1.
C16_WindowIsSlice ==
    (/\ variant \in {"radix", "radix_spline"} /\ pc = "built" /\ Valid
     /\ Searched /\ InRange(result.key) /\ result.from # -1)
    => (/\ 0 <= result.from
        /\ result.from <= result.to
        /\ result.to <= Len(data) - 1)

\* The scan is at the start of a step: data[i] is the next candidate.
Scanning == pc = "scan" /\ i < Len(data)

BothBuilt == variant = "radix_spline" /\ pc = "built" /\ b_pc = "built"

\* C21: the two-pass Builder and the single-pass RadixSpline of
\* radix_spline.rs agree: for every input both accept and the same
\* num_radix_bits and max_error they produce the same spline points (key
\* and position) and the same radix table in every slot.
C21_BuildersAgree ==
    BothBuilt => (points = b_points /\ table = b_table)

====
